---------------------------- MODULE Spec2Model ----------------------------
(***************************************************************************)
(* go-garmin-gpx: the GPX schema bindings of gpx.go and its two entry      *)
(* points, ParseFile and Parse.                                            *)
(*                                                                         *)
(* The bindings (struct tags) are data: one table per struct type.  The    *)
(* decoder that Parse calls, encoding/xml's Unmarshal, is modelled as the  *)
(* table-driven walk it is: Token, unmarshal, unmarshalPath, copyValue,    *)
(* Skip.  The encoder the same tags drive, Marshal, is modelled likewise.  *)
(*                                                                         *)
(* A byte buffer is modelled by the sequence of raw XML tokens it lexes    *)
(* to; a lexical error in the bytes (an unclosed tag, say) is a token of   *)
(* kind "bad" at the place the lexer meets it.  Element and attribute      *)
(* names are strings; character data and attribute values are sequences    *)
(* of one-character strings, so that number parsing and formatting are     *)
(* computed.  A float64 is modelled by the shortest decimal that denotes   *)
(* it, [m, e] standing for m * 10^(-e): exact for the short decimals used. *)
(***************************************************************************)
EXTENDS Integers, Sequences, FiniteSets, TLC

VARIABLES
    op,       \* the last operation: "init", "Parse", "ParseFile", "Marshal", "RoundTrip"
    input,    \* the byte buffer handed to Parse
    file,     \* the file ParseFile was asked to read
    g,        \* the Document the operation's receiver holds afterwards
    err,      \* the error the operation returned (Nil: none)
    ret,      \* ParseFile's returned pointer
    parsed,   \* whether Parse was invoked by the last ParseFile
    consumed, \* how many tokens of the buffer the decoder read
    calls,    \* Parse calls made on the receiver so far
    orig      \* the Document handed to Marshal

vars == <<op, input, file, g, err, ret, parsed, consumed, calls, orig>>

-----------------------------------------------------------------------------
(* Bounds of the model. *)

\* longest generated sequence of sibling elements (wpt, rte, rtept, trkseg, trkpt, link)
MaxElems == 2
\* most trk elements in a generated document
MaxTrk == 2
\* most Parse calls on one receiver
MaxCalls == 2

-----------------------------------------------------------------------------
(* Text helpers. *)

Nil == "nil"

DigitChars == <<"0", "1", "2", "3", "4", "5", "6", "7", "8", "9">>

IsDigit(c) == \E d \in 1..10 : DigitChars[d] = c

DigitVal(c) == (CHOOSE d \in 1..10 : DigitChars[d] = c) - 1

IsSpace(c) == c \in {" ", "\n", "\t", "\r"}

RECURSIVE TrimLeft(_)
TrimLeft(s) == IF s # <<>> /\ IsSpace(s[1]) THEN TrimLeft(Tail(s)) ELSE s

RECURSIVE TrimRight(_)
TrimRight(s) ==
    IF s # <<>> /\ IsSpace(s[Len(s)]) THEN TrimRight(SubSeq(s, 1, Len(s) - 1)) ELSE s

\* strings.TrimSpace
TrimSpace(s) == TrimRight(TrimLeft(s))

RECURSIVE DigitsVal(_)
DigitsVal(s) == IF s = <<>> THEN 0 ELSE 10 * DigitsVal(SubSeq(s, 1, Len(s) - 1)) + DigitVal(s[Len(s)])

AllDigits(s) == \A i \in 1..Len(s) : IsDigit(s[i])

RECURSIVE NatDigits(_)
NatDigits(n) == IF n < 10 THEN <<DigitChars[n + 1]>> ELSE Append(NatDigits(n \div 10), DigitChars[(n % 10) + 1])

RECURSIVE Pow10(_)
Pow10(k) == IF k = 0 THEN 1 ELSE 10 * Pow10(k - 1)

RECURSIVE PadLeft(_, _)
PadLeft(s, n) == IF Len(s) >= n THEN s ELSE PadLeft(<<"0">> \o s, n)

HasSign(s) == s # <<>> /\ s[1] \in {"+", "-"}

Unsigned(s) == IF HasSign(s) THEN Tail(s) ELSE s

ErrSyntaxInt == "strconv.ParseInt: invalid syntax"
ErrRangeInt == "strconv.ParseInt: value out of range"
ErrSyntaxFloat == "strconv.ParseFloat: invalid syntax"

\* strconv.ParseInt(s, 10, 64).  An int64 holds every number of at most 18 digits and
\* none of 20 or more; the model's texts have neither 19 digits nor 10 to 18.
ParseInt(s) ==
    LET d == Unsigned(s) IN
    IF d = <<>> \/ ~AllDigits(d) THEN [err |-> ErrSyntaxInt, val |-> 0]
    ELSE IF Len(d) > 19 THEN [err |-> ErrRangeInt, val |-> 0]
    ELSE [err |-> Nil, val |-> IF s[1] = "-" THEN 0 - DigitsVal(d) ELSE DigitsVal(d)]

\* strconv.FormatInt(n, 10)
FormatInt(n) == IF n < 0 THEN <<"-">> \o NatDigits(0 - n) ELSE NatDigits(n)

RECURSIVE Normal(_)
\* the shortest decimal of a value: no trailing zero in the fraction
Normal(f) == IF f.e > 0 /\ f.m % 10 = 0 THEN Normal([m |-> f.m \div 10, e |-> f.e - 1]) ELSE f

ZeroFloat == [m |-> 0, e |-> 0]

DotAt(s) == IF \E i \in 1..Len(s) : s[i] = "." THEN CHOOSE i \in 1..Len(s) : s[i] = "." /\ \A j \in 1..(i - 1) : s[j] # "." ELSE 0

\* strconv.ParseFloat(s, 64) on plain decimals: sign, digits, an optional fraction.
\* (Exponent, hexadecimal, "inf" and "nan" forms are not among the model's texts.)
ParseFloat(s) ==
    LET d == Unsigned(s)
        dot == DotAt(d)
        ip == IF dot = 0 THEN d ELSE SubSeq(d, 1, dot - 1)
        fp == IF dot = 0 THEN <<>> ELSE SubSeq(d, dot + 1, Len(d))
    IN  IF (ip = <<>> /\ fp = <<>>) \/ ~AllDigits(ip) \/ ~AllDigits(fp)
        THEN [err |-> ErrSyntaxFloat, val |-> ZeroFloat]
        ELSE LET mag == DigitsVal(ip \o fp)
             IN  [err |-> Nil,
                  val |-> Normal([m |-> IF s[1] = "-" THEN 0 - mag ELSE mag, e |-> Len(fp)])]

\* strconv.FormatFloat(f, 'g', -1, 64) for values whose decimal exponent is in [-4, 21)
FormatFloat(f) ==
    LET mag == IF f.m < 0 THEN 0 - f.m ELSE f.m
        sign == IF f.m < 0 THEN <<"-">> ELSE <<>>
    IN  IF f.e = 0 THEN sign \o NatDigits(mag)
        ELSE sign \o NatDigits(mag \div Pow10(f.e)) \o <<".">>
                  \o PadLeft(NatDigits(mag % Pow10(f.e)), f.e)

-----------------------------------------------------------------------------
(* The schema bindings: Go types and struct tags. *)

TString == [k |-> "string", t |-> ""]
TInt == [k |-> "int", t |-> ""]
TFloat == [k |-> "float", t |-> ""]
TStruct(T) == [k |-> "struct", t |-> T]
TSlice(T) == [k |-> "slice", t |-> T]

\* the named scalar types
Latitude == TFloat
Longitude == TFloat
Degrees == TFloat
Fix == TString
DGPSStation == TInt

\* a field with tag `xml:"name"`, `xml:"name,omitempty"`
Elem(go, name, omit, ty) == [go |-> go, name |-> name, mode |-> "elem", omit |-> omit, ty |-> ty]
\* a field with tag `xml:"name,attr"`, `xml:"name,attr,omitempty"`
Attr(go, name, omit, ty) == [go |-> go, name |-> name, mode |-> "attr", omit |-> omit, ty |-> ty]

\* each table: the XMLName tag ("" when the struct declares no XMLName) and the fields in order
GPX ==
    [xmlname |-> "gpx",
     fields |-> << Attr("Version", "version", FALSE, TString),
                   Attr("Creator", "creator", FALSE, TString),
                   Elem("Metadata", "metadata", TRUE, TStruct("Metadata")),
                   Elem("Waypoints", "wpt", TRUE, TSlice("WayPoint")),
                   Elem("Routes", "rte", TRUE, TSlice("Route")),
                   Elem("Tracks", "trk", FALSE, TStruct("Track")) >>]

Metadata ==
    [xmlname |-> "metadata",
     fields |-> << Elem("Name", "name", TRUE, TString),
                   Elem("Description", "desc", TRUE, TString),
                   Elem("Author", "author", TRUE, TStruct("Person")),
                   Elem("Copyright", "copyright", TRUE, TStruct("Copyright")),
                   Elem("Links", "link", TRUE, TSlice("Link")),
                   Elem("Timestamp", "time", TRUE, TString),
                   Elem("Keywords", "keywords", TRUE, TString),
                   Elem("Bounds", "bounds", FALSE, TStruct("Bounds")),
                   Elem("Extensions", "extensions", TRUE, TStruct("Extension")) >>]

WayPoint ==
    [xmlname |-> "",
     fields |-> << Attr("Latitude", "lat", FALSE, Latitude),
                   Attr("Longitude", "lon", FALSE, Longitude),
                   Elem("Elevation", "ele", TRUE, TFloat),
                   Elem("Timestamp", "time", TRUE, TString),
                   Elem("MagneticVariation", "magvar", TRUE, Degrees),
                   Elem("GeoIDHeight", "geoidheight", TRUE, TString),
                   Elem("Name", "name", TRUE, TString),
                   Elem("Comment", "cmt", TRUE, TString),
                   Elem("Description", "desc", TRUE, TString),
                   Elem("Source", "src", TRUE, TString),
                   Elem("Links", "link", FALSE, TSlice("Link")),
                   Elem("Symbol", "sym", TRUE, TString),
                   Elem("Type", "type", TRUE, TString),
                   Elem("Fix", "fix", TRUE, Fix),
                   Elem("Sat", "sat", TRUE, TInt),
                   Elem("HorizontalDilutionOfPrecision", "hdop", TRUE, TFloat),
                   Elem("VerticalDilutionOfPrecision", "vdop", TRUE, TFloat),
                   Elem("PositionDilutionOfPrecision", "pdop", TRUE, TFloat),
                   Elem("AgeOfGpsData", "ageofgpsdata", TRUE, TFloat),
                   Elem("DifferentialGPSID", "dgpsid", TRUE, DGPSStation),
                   Elem("Extensions", "extensions", TRUE, TStruct("Extension")) >>]

Route ==
    [xmlname |-> "rte",
     fields |-> << Elem("Name", "name", TRUE, TString),
                   Elem("Comment", "cmt", TRUE, TString),
                   Elem("Description", "desc", TRUE, TString),
                   Elem("Source", "src", TRUE, TString),
                   Elem("Links", "link", FALSE, TSlice("Link")),
                   Elem("Number", "number", TRUE, TInt),
                   Elem("Type", "type", TRUE, TString),
                   Elem("Extensions", "extensions", TRUE, TStruct("Extension")),
                   Elem("RoutePoints", "rtept", FALSE, TSlice("WayPoint")) >>]

Track ==
    [xmlname |-> "trk",
     fields |-> << Elem("Name", "name", TRUE, TString),
                   Elem("Comment", "cmt", TRUE, TString),
                   Elem("Description", "desc", TRUE, TString),
                   Elem("Source", "src", TRUE, TString),
                   Elem("Links", "link", FALSE, TSlice("Link")),
                   Elem("Number", "number", TRUE, TInt),
                   Elem("Type", "type", TRUE, TString),
                   Elem("Extensions", "extensions", TRUE, TStruct("Extension")),
                   Elem("TrackSegments", "trkseg", FALSE, TSlice("TrackSegment")) >>]

Extension ==
    [xmlname |-> "extensions",
     fields |-> << Elem("TrackPointExtensions", "TrackPointExtension", TRUE,
                        TStruct("TrackPointExtension")) >>]

TrackPointExtension ==
    [xmlname |-> "TrackPointExtension",
     fields |-> << Elem("Temperature", "atemp", TRUE, TInt),
                   Elem("HeartRate", "hr", TRUE, TInt),
                   Elem("Cadence", "cad", TRUE, TInt) >>]

TrackSegment ==
    [xmlname |-> "trkseg",
     fields |-> << Elem("TrackPoint", "trkpt", FALSE, TSlice("WayPoint")),
                   Elem("Extensions", "extensions", TRUE, TStruct("Extension")) >>]

Copyright ==
    [xmlname |-> "copyright",
     fields |-> << Attr("Author", "author", FALSE, TString),
                   Elem("Year", "year", TRUE, TString),
                   Elem("License", "license", TRUE, TString) >>]

Link ==
    [xmlname |-> "link",
     fields |-> << Attr("URL", "href", TRUE, TString),
                   Elem("Text", "text", TRUE, TString),
                   Elem("Type", "type", TRUE, TString) >>]

Email ==
    [xmlname |-> "email",
     fields |-> << Attr("ID", "id", TRUE, TString),
                   Attr("Domain", "domain", TRUE, TString) >>]

Person ==
    [xmlname |-> "author",
     fields |-> << Elem("Name", "name", TRUE, TString),
                   Elem("Email", "email", TRUE, TStruct("Email")),
                   Elem("Link", "link", TRUE, TStruct("Link")) >>]

Point ==
    [xmlname |-> "pt",
     fields |-> << Attr("Latitude", "lat", FALSE, Latitude),
                   Attr("Longitude", "lon", FALSE, Longitude),
                   Elem("Elevation", "ele", TRUE, TFloat),
                   Elem("Timestamp", "time", TRUE, TString) >>]

PointSegment ==
    [xmlname |-> "ptseg",
     fields |-> << Elem("Points", "pt", FALSE, TSlice("Point")) >>]

Bounds ==
    [xmlname |-> "bounds",
     fields |-> << Attr("MinLat", "minlat", FALSE, TFloat),
                   Attr("MaxLat", "maxlat", FALSE, TFloat),
                   Attr("MinLon", "minlon", FALSE, TFloat),
                   Attr("MaxLon", "maxlon", FALSE, TFloat) >>]

\* the type information encoding/xml derives from a struct type by reflection
TypeInfo(T) ==
    CASE T = "GPX" -> GPX
      [] T = "Metadata" -> Metadata
      [] T = "WayPoint" -> WayPoint
      [] T = "Route" -> Route
      [] T = "Track" -> Track
      [] T = "Extension" -> Extension
      [] T = "TrackPointExtension" -> TrackPointExtension
      [] T = "TrackSegment" -> TrackSegment
      [] T = "Copyright" -> Copyright
      [] T = "Link" -> Link
      [] T = "Email" -> Email
      [] T = "Person" -> Person
      [] T = "Point" -> Point
      [] T = "PointSegment" -> PointSegment
      [] T = "Bounds" -> Bounds

Fields(T) == TypeInfo(T).fields

XMLNameTag(T) == TypeInfo(T).xmlname

\* xml.Name
Name(space, local) == [Space |-> space, Local |-> local]

ZeroName == Name("", "")

GoNames(T) ==
    {Fields(T)[i].go : i \in 1..Len(Fields(T))} \cup (IF XMLNameTag(T) = "" THEN {} ELSE {"XMLName"})

FieldByGo(T, n) == Fields(T)[CHOOSE i \in 1..Len(Fields(T)) : Fields(T)[i].go = n]

RECURSIVE Zero(_)
\* the zero value of a type
Zero(ty) ==
    CASE ty.k = "string" -> <<>>
      [] ty.k = "int" -> 0
      [] ty.k = "float" -> ZeroFloat
      [] ty.k = "slice" -> <<>>
      [] ty.k = "struct" ->
           [n \in GoNames(ty.t) |-> IF n = "XMLName" THEN ZeroName ELSE Zero(FieldByGo(ty.t, n).ty)]

\* GPX{}
ZeroGPX == Zero(TStruct("GPX"))

-----------------------------------------------------------------------------
(* Byte buffers, as the raw tokens they lex to. *)

StartElement(space, name, attrs) ==
    [k |-> "start", space |-> space, name |-> name, attrs |-> attrs, text |-> <<>>]
EndElement(name) == [k |-> "end", space |-> "", name |-> name, attrs |-> <<>>, text |-> <<>>]
CharData(text) == [k |-> "chars", space |-> "", name |-> "", attrs |-> <<>>, text |-> text]
\* a comment, a processing instruction (<?xml ...?>) or a directive
ProcInst == [k |-> "other", space |-> "", name |-> "", attrs |-> <<>>, text |-> <<>>]
\* bytes the lexer rejects where it meets them: "<wpt" with no ">", "<<", ...
BadBytes == [k |-> "bad", space |-> "", name |-> "", attrs |-> <<>>, text |-> <<>>]
XMLAttr(name, val) == [name |-> name, val |-> val]

ErrEOF == "EOF"
ErrUnexpectedEOF == "XML syntax error: unexpected EOF"
ErrSyntax == "XML syntax error: invalid bytes"
ErrUnexpectedEnd == "XML syntax error: unexpected end element"
ErrMismatchedEnd == "XML syntax error: element closed by another element's end tag"
ErrExpectedElement == "expected element type <T> but have <U>"

-----------------------------------------------------------------------------
(* encoding/xml's decoder, as xml.Unmarshal(bytes, g) runs it. *)

\* Decoder.Token: the next token of b, and the open-element stack it checks end tags against
Token(b, i, stk) ==
    IF i > Len(b)
    THEN [err |-> IF stk = <<>> THEN ErrEOF ELSE ErrUnexpectedEOF, tok |-> BadBytes, i |-> i, stk |-> stk]
    ELSE LET t == b[i] IN
         CASE t.k = "bad" -> [err |-> ErrSyntax, tok |-> t, i |-> i, stk |-> stk]
           [] t.k = "start" -> [err |-> Nil, tok |-> t, i |-> i + 1, stk |-> Append(stk, t.name)]
           [] t.k = "end" ->
                IF stk = <<>> THEN [err |-> ErrUnexpectedEnd, tok |-> t, i |-> i, stk |-> stk]
                ELSE IF stk[Len(stk)] # t.name
                THEN [err |-> ErrMismatchedEnd, tok |-> t, i |-> i, stk |-> stk]
                ELSE [err |-> Nil, tok |-> t, i |-> i + 1, stk |-> SubSeq(stk, 1, Len(stk) - 1)]
           [] OTHER -> [err |-> Nil, tok |-> t, i |-> i + 1, stk |-> stk]

\* what a decoding step returns: the error, the value as it stands, the decoder's place
Result(e, v, i, stk) == [err |-> e, val |-> v, i |-> i, stk |-> stk]

RECURSIVE Skip(_, _, _, _)
SkipStep(b, t, depth) ==
    IF t.err # Nil THEN Result(t.err, <<>>, t.i, t.stk)
    ELSE CASE t.tok.k = "start" -> Skip(b, t.i, t.stk, depth + 1)
           [] t.tok.k = "end" ->
                IF depth = 0 THEN Result(Nil, <<>>, t.i, t.stk) ELSE Skip(b, t.i, t.stk, depth - 1)
           [] OTHER -> Skip(b, t.i, t.stk, depth)

\* Decoder.Skip: reads up to the end element matching the start element already consumed
Skip(b, i, stk, depth) == SkipStep(b, Token(b, i, stk), depth)

\* the number a numeric field takes from a text: the parse of the trimmed text, or the
\* error and the field as it was
Parsed(r, dst) == IF r.err # Nil THEN [err |-> r.err, val |-> dst] ELSE r

\* copyValue: the text src stored into a scalar of type ty that holds dst
copyValue(ty, dst, src) ==
    CASE ty.k = "int" ->
           IF src = <<>> THEN [err |-> Nil, val |-> 0] ELSE Parsed(ParseInt(TrimSpace(src)), dst)
      [] ty.k = "float" ->
           IF src = <<>> THEN [err |-> Nil, val |-> ZeroFloat]
           ELSE Parsed(ParseFloat(TrimSpace(src)), dst)
      [] OTHER -> [err |-> Nil, val |-> src]

\* no field of the struct is bound to the name
NoField == [go |-> "", name |-> "", mode |-> "", omit |-> FALSE, ty |-> TString]

\* the first field among fs with the mode that is bound to name
Lookup(fs, mode, name, hit) ==
    IF hit = {} THEN NoField ELSE fs[CHOOSE j \in hit : \A h \in hit : j <= h]

FieldFor(fs, mode, name) ==
    Lookup(fs, mode, name, {j \in 1..Len(fs) : fs[j].mode = mode /\ fs[j].name = name})

\* the attr-mode field of T bound to an attribute name
AttrField(T, name) == FieldFor(Fields(T), "attr", name)

\* a lookup that binds a child element to a field whatever the field's mode
ElemField_AnyMode(T, name) ==
    Lookup(Fields(T), "", name, {j \in 1..Len(Fields(T)) : Fields(T)[j].name = name})

\* the element-mode field of T bound to an element name
ElemField(T, name) == FieldFor(Fields(T), "elem", name)

RECURSIVE assignAttrs(_, _, _, _)
assignCopied(T, v, attrs, n, f, c) ==
    IF c.err # Nil THEN [err |-> c.err, val |-> v]
    ELSE assignAttrs(T, [v EXCEPT ![f.go] = c.val], attrs, n + 1)

assignAttr(T, v, attrs, n, f) ==
    IF f = NoField THEN assignAttrs(T, v, attrs, n + 1)
    ELSE assignCopied(T, v, attrs, n, f, copyValue(f.ty, v[f.go], attrs[n].val))

\* unmarshal's "Assign attributes" loop, from the n-th attribute of the start element on
assignAttrs(T, v, attrs, n) ==
    IF n > Len(attrs) THEN [err |-> Nil, val |-> v]
    ELSE assignAttr(T, v, attrs, n, AttrField(T, attrs[n].name))

RECURSIVE dataLoop(_, _, _, _)
dataSkipped(b, data, s) ==
    IF s.err # Nil THEN Result(s.err, data, s.i, s.stk) ELSE dataLoop(b, data, s.i, s.stk)

dataStep(b, data, t) ==
    IF t.err # Nil THEN Result(t.err, data, t.i, t.stk)
    ELSE CASE t.tok.k = "start" -> dataSkipped(b, data, Skip(b, t.i, t.stk, 0))
           [] t.tok.k = "end" -> Result(Nil, data, t.i, t.stk)
           [] t.tok.k = "chars" -> dataLoop(b, data \o t.tok.text, t.i, t.stk)
           [] OTHER -> dataLoop(b, data, t.i, t.stk)

\* unmarshal's token loop for a scalar: character data is saved, sub-elements are skipped
dataLoop(b, data, i, stk) == dataStep(b, data, Token(b, i, stk))

RECURSIVE unmarshal(_, _, _, _, _, _)
RECURSIVE structLoop(_, _, _, _, _)

\* the field f of v decoded: r is what unmarshal made of it
pathDone(v, f, r) ==
    [consumed |-> TRUE, err |-> r.err, val |-> [v EXCEPT ![f.go] = r.val], i |-> r.i, stk |-> r.stk]

pathField(b, T, v, start, i, stk, f) ==
    IF f = NoField THEN [consumed |-> FALSE, err |-> Nil, val |-> v, i |-> i, stk |-> stk]
    ELSE pathDone(v, f, unmarshal(b, f.ty, v[f.go], start, i, stk))

\* unmarshalPath: the sub-element start goes to the field of T bound to its name, if any
unmarshalPath(b, T, v, start, i, stk) ==
    pathField(b, T, v, start, i, stk, ElemField(T, start.name))

structSkipped(b, T, v, s) ==
    IF s.err # Nil THEN Result(s.err, v, s.i, s.stk) ELSE structLoop(b, T, v, s.i, s.stk)

structSub(b, T, v, t, p) ==
    IF p.err # Nil THEN Result(p.err, p.val, p.i, p.stk)
    ELSE IF p.consumed THEN structLoop(b, T, p.val, p.i, p.stk)
    ELSE structSkipped(b, T, v, Skip(b, t.i, t.stk, 0))

structStep(b, T, v, t) ==
    IF t.err # Nil THEN Result(t.err, v, t.i, t.stk)
    ELSE CASE t.tok.k = "start" -> structSub(b, T, v, t, unmarshalPath(b, T, v, t.tok, t.i, t.stk))
           [] t.tok.k = "end" -> Result(Nil, v, t.i, t.stk)
           [] OTHER -> structLoop(b, T, v, t.i, t.stk)

\* unmarshal's token loop for a struct: "Find end element. Process sub-elements along the way."
structLoop(b, T, v, i, stk) == structStep(b, T, v, Token(b, i, stk))

\* a slice field that takes the new element at its front
sliceDone_Prepends(v, r) == Result(r.err, IF r.err # Nil THEN v ELSE <<r.val>> \o v, r.i, r.stk)

\* a slice field: the new element is appended, or on an error the slice is cut back
sliceDone(v, r) == Result(r.err, IF r.err # Nil THEN v ELSE Append(v, r.val), r.i, r.stk)

\* a scalar field: the saved character data is stored by copyValue
scalarCopied(v, r, c) == Result(c.err, c.val, r.i, r.stk)

scalarDone(ty, v, r) ==
    IF r.err # Nil THEN Result(r.err, v, r.i, r.stk) ELSE scalarCopied(v, r, copyValue(ty, v, r.val))

\* a struct: once its attributes are assigned its sub-elements are read
structAttrs(b, T, a, i, stk) ==
    IF a.err # Nil THEN Result(a.err, a.val, i, stk) ELSE structLoop(b, T, a.val, i, stk)

\* the XMLName field takes the start element's name
namedBy(xn, v, start) ==
    IF xn = "" THEN v ELSE [v EXCEPT !["XMLName"] = Name(start.space, start.name)]

\* a struct that is cleared before each element decoded into it
structNamed_Cleared(b, T, xn, v, start, i, stk) ==
    IF xn # "" /\ xn # start.name THEN Result(ErrExpectedElement, v, i, stk)
    ELSE structAttrs(b, T, assignAttrs(T, namedBy(xn, Zero(TStruct(T)), start), start.attrs, 1), i, stk)

structNamed(b, T, xn, v, start, i, stk) ==
    IF xn # "" /\ xn # start.name THEN Result(ErrExpectedElement, v, i, stk)
    ELSE structAttrs(b, T, assignAttrs(T, namedBy(xn, v, start), start.attrs, 1), i, stk)

\* Decoder.unmarshal: the element opened by start, decoded into v of type ty.  v is
\* addressable: what was stored before an error stays stored, but a slice is cut back
\* to its old length.
unmarshal(b, ty, v, start, i, stk) ==
    CASE ty.k = "slice" ->
           sliceDone(v, unmarshal(b, TStruct(ty.t), Zero(TStruct(ty.t)), start, i, stk))
      [] ty.k = "struct" -> structNamed(b, ty.t, XMLNameTag(ty.t), v, start, i, stk)
      [] OTHER -> scalarDone(ty, v, dataLoop(b, <<>>, i, stk))

RECURSIVE firstStart(_, _, _)
firstStep(b, t) == IF t.err # Nil \/ t.tok.k = "start" THEN t ELSE firstStart(b, t.i, t.stk)

\* unmarshal with no start element given: tokens are read up to the first start element
firstStart(b, i, stk) == firstStep(b, Token(b, i, stk))

\* the error, what v holds afterwards, and the number of tokens read
Decoded(r) == [err |-> r.err, val |-> r.val, read |-> r.i - 1]

rootFrom(b, v, t) ==
    IF t.err # Nil THEN [err |-> t.err, val |-> v, read |-> t.i - 1]
    ELSE Decoded(unmarshal(b, TStruct("GPX"), v, t.tok, t.i, t.stk))

\* xml.Unmarshal(b, &v) for v of type GPX
Unmarshal(b, v) == rootFrom(b, v, firstStart(b, 1, <<>>))

-----------------------------------------------------------------------------
(* The entry points of gpx.go. *)

\* a Parse that drops the decoder's error
Parse_DropsError(bytes, doc) == [Unmarshal(bytes, doc) EXCEPT !.err = Nil]

OutOfRange(f) == f.m > 90 * Pow10(f.e) \/ f.m < 0 - 90 * Pow10(f.e)

Checked(r) ==
    IF r.err = Nil /\ \E n \in 1..Len(r.val.Waypoints) : OutOfRange(r.val.Waypoints[n].Latitude)
    THEN [r EXCEPT !.err = "latitude out of range"]
    ELSE r

\* a Parse that rejects a waypoint latitude outside [-90, 90]
Parse_ChecksRange(bytes, doc) == Checked(Unmarshal(bytes, doc))

Required(r) ==
    IF r.err = Nil /\ r.val.Metadata.XMLName = ZeroName
    THEN [r EXCEPT !.err = "metadata element missing"]
    ELSE r

\* a Parse that rejects a document without a metadata element
Parse_RequiresMetadata(bytes, doc) == Required(Unmarshal(bytes, doc))

\* a Parse that clears the receiver before decoding
Parse_ClearsReceiver(bytes, doc) == Unmarshal(bytes, ZeroGPX)

\* Parse(bytes, g): err is Unmarshal's error, returned as it is; val is what the
\* receiver g holds afterwards, read the number of tokens the decoder read
Parse(bytes, doc) == Unmarshal(bytes, doc)

ErrNotExist == "open: no such file or directory"
ErrPermission == "open: permission denied"

\* ioutil.ReadFile on a file of the file system
ReadFile(fileName) ==
    IF ~fileName.exists THEN [err |-> ErrNotExist, bytes |-> <<>>]
    ELSE IF ~fileName.readable THEN [err |-> ErrPermission, bytes |-> <<>>]
    ELSE [err |-> Nil, bytes |-> fileName.bytes]

\* the pointer &g
AddressOf(doc) == [nil |-> FALSE, doc |-> doc]

\* a ParseFile that returns a new GPX{} when Parse fails
ParseFile_ZeroOnError(fileName) ==
    LET rd == ReadFile(fileName) IN
    IF rd.err # Nil THEN [ret |-> AddressOf(ZeroGPX), err |-> rd.err, parsed |-> FALSE, read |-> 0]
    ELSE LET p == Parse(rd.bytes, ZeroGPX) IN
         [ret |-> AddressOf(IF p.err # Nil THEN ZeroGPX ELSE p.val), err |-> p.err,
          parsed |-> TRUE, read |-> p.read]

\* a ParseFile that does not return after a failed read
ParseFile_ParsesAnyway(fileName) ==
    LET rd == ReadFile(fileName)
        p == Parse(rd.bytes, ZeroGPX)
    IN  [ret |-> AddressOf(p.val), err |-> p.err, parsed |-> TRUE, read |-> p.read]

\* ParseFile(fileName): the returned pointer and error, and whether Parse was called
ParseFile(fileName) ==
    LET rd == ReadFile(fileName) IN
    IF rd.err # Nil THEN [ret |-> AddressOf(ZeroGPX), err |-> rd.err, parsed |-> FALSE, read |-> 0]
    ELSE LET p == Parse(rd.bytes, ZeroGPX) IN
         [ret |-> AddressOf(p.val), err |-> p.err, parsed |-> TRUE, read |-> p.read]

-----------------------------------------------------------------------------
(* encoding/xml's encoder, as xml.Marshal(g) runs it on the same bindings. *)

isEmptyValue(ty, v) ==
    CASE ty.k \in {"string", "slice"} -> v = <<>>
      [] ty.k = "int" -> v = 0
      [] ty.k = "float" -> v.m = 0
      [] OTHER -> FALSE

\* marshalSimple: the text of a scalar
marshalSimple(ty, v) ==
    CASE ty.k = "int" -> FormatInt(v)
      [] ty.k = "float" -> FormatFloat(v)
      [] OTHER -> v

RECURSIVE marshalAttrs(_, _, _)
\* the attributes of the start element of a struct, from field n on
marshalAttrs(T, v, n) ==
    IF n > Len(Fields(T)) THEN <<>>
    ELSE LET f == Fields(T)[n] IN
         IF f.mode # "attr" \/ (f.omit /\ isEmptyValue(f.ty, v[f.go])) THEN marshalAttrs(T, v, n + 1)
         ELSE <<XMLAttr(f.name, marshalSimple(f.ty, v[f.go]))>> \o marshalAttrs(T, v, n + 1)

RECURSIVE marshalValue(_, _, _, _)
RECURSIVE marshalStruct(_, _, _)
RECURSIVE marshalSlice(_, _, _, _, _)

\* an encoder that writes the first element of a slice only
marshalSlice_FirstOnly(T, v, name, omit, n) ==
    IF n > Len(v) \/ n > 1 THEN <<>> ELSE marshalValue(TStruct(T), v[n], name, omit)

\* marshalValue: the element for v of type ty, under the field's name and omitempty flag.
\* The name of a struct's element is its XMLName tag when it has one.
marshalValue(ty, v, name, omit) ==
    IF omit /\ isEmptyValue(ty, v) THEN <<>>
    ELSE CASE ty.k = "slice" -> marshalSlice(ty.t, v, name, omit, 1)
           [] ty.k = "struct" ->
                LET n == IF XMLNameTag(ty.t) # "" THEN XMLNameTag(ty.t) ELSE name IN
                <<StartElement("", n, marshalAttrs(ty.t, v, 1))>> \o marshalStruct(ty.t, v, 1)
                    \o <<EndElement(n)>>
           [] OTHER ->
                LET text == marshalSimple(ty, v) IN
                <<StartElement("", name, <<>>)>> \o (IF text = <<>> THEN <<>> ELSE <<CharData(text)>>)
                    \o <<EndElement(name)>>

\* marshalStruct: the element-mode fields in order, from field n on
marshalStruct(T, v, n) ==
    IF n > Len(Fields(T)) THEN <<>>
    ELSE LET f == Fields(T)[n] IN
         IF f.mode # "elem" THEN marshalStruct(T, v, n + 1)
         ELSE marshalValue(f.ty, v[f.go], f.name, f.omit) \o marshalStruct(T, v, n + 1)

marshalSlice(T, v, name, omit, n) ==
    IF n > Len(v) THEN <<>>
    ELSE marshalValue(TStruct(T), v[n], name, omit) \o marshalSlice(T, v, name, omit, n + 1)

\* xml.Marshal(&d) for d of type GPX
Marshal(d) == marshalValue(TStruct("GPX"), d, "", FALSE)

-----------------------------------------------------------------------------
(* The byte buffers the operations are run on. *)

RECURSIVE Flatten(_)
Flatten(ss) == IF ss = <<>> THEN <<>> ELSE ss[1] \o Flatten(Tail(ss))

\* <name attrs>kids</name>
El(name, attrs, kids) == <<StartElement("", name, attrs)>> \o kids \o <<EndElement(name)>>
\* <name>text</name>
TextEl(name, text) == El(name, <<>>, IF text = <<>> THEN <<>> ELSE <<CharData(text)>>)

TxtVersion == <<"1", ".", "1">>
TxtCreator == <<"t", "e", "s", "t">>
NoKids == <<>>

GpxAttrs == <<XMLAttr("version", TxtVersion), XMLAttr("creator", TxtCreator)>>

\* <gpx version="1.1" creator="test">kids</gpx>
Gpx(kids) == El("gpx", GpxAttrs, kids)

\* a point element with its two attributes
Pt(name, lat, lon, kids) == El(name, <<XMLAttr("lat", lat), XMLAttr("lon", lon)>>, kids)

\* the same document in the GPX namespace, declared on the root element
GpxNamespace == "http://www.topografix.com/GPX/1/1"
InNamespace(b) ==
    [n \in 1..Len(b) |->
        IF b[n].k # "start" THEN b[n]
        ELSE [b[n] EXCEPT !.space = GpxNamespace,
                          !.attrs = IF n = 1 THEN <<XMLAttr("xmlns", <<"g">>)>> \o @ ELSE @]]

\* labels that tell sibling elements apart: a latitude in range and one out of range
Labels == {<<"1", ".", "5">>, <<"-", "9", "1">>}
SeqsUpTo(S, n) == UNION {[1..k -> S] : k \in 0..n}

OrderKinds == {"wpt", "rte", "rtept", "trkseg", "trkpt", "link"}

\* a document whose elements of one kind carry the labels s, in that order
OrderDoc(kind, s) ==
    LET pts(name) == Flatten([n \in 1..Len(s) |-> Pt(name, s[n], <<"2">>, NoKids)]) IN
    CASE kind = "wpt" -> Gpx(pts("wpt"))
      [] kind = "rte" ->
           Gpx(Flatten([n \in 1..Len(s) |-> El("rte", <<>>, Pt("rtept", s[n], <<"2">>, NoKids))]))
      [] kind = "rtept" -> Gpx(El("rte", <<>>, pts("rtept")))
      [] kind = "trkseg" ->
           Gpx(El("trk", <<>>,
                  Flatten([n \in 1..Len(s) |-> El("trkseg", <<>>, Pt("trkpt", s[n], <<"2">>, NoKids))])))
      [] kind = "trkpt" -> Gpx(El("trk", <<>>, El("trkseg", <<>>, pts("trkpt"))))
      [] kind = "link" ->
           Gpx(Pt("wpt", <<"2">>, <<"2">>,
                  Flatten([n \in 1..Len(s) |-> El("link", <<XMLAttr("href", s[n])>>, NoKids)])))

OrderDocs == {OrderDoc(kind, s) : kind \in OrderKinds, s \in SeqsUpTo(Labels, MaxElems)}

\* wpt, rte and unknown elements interleaved; a wpt inside an unknown element is no waypoint
MixedDoc ==
    Gpx(Pt("wpt", <<"1", ".", "5">>, <<"2">>, TextEl("name", <<"a">>))
        \o El("rte", <<>>, TextEl("name", <<"r">>) \o Pt("rtept", <<"-", "9", "1">>, <<"2">>, NoKids))
        \o El("note", <<>>, Pt("wpt", <<"2">>, <<"2">>, NoKids))
        \o <<CharData(<<"\n">>)>>
        \o Pt("wpt", <<"-", "9", "1">>, <<"2">>, Pt("wpt", <<"2">>, <<"2">>, NoKids))
        \o El("rte", <<>>, Pt("rtept", <<"1", ".", "5">>, <<"2">>, NoKids) \o Pt("rtept", <<"-", "9", "1">>, <<"2">>, NoKids)))

\* the segment counts of the trk elements of a document: one count per trk
TrkShapes == SeqsUpTo(0..MaxElems, MaxTrk)

RECURSIVE SumTo(_, _)
SumTo(c, n) == IF n = 0 THEN 0 ELSE c[n] + SumTo(c, n - 1)

\* a document with Len(c) trk elements, the n-th holding c[n] trkseg elements; every
\* trkseg holds one trkpt whose latitude is the segment's number in document order
TrkDoc(c) ==
    Gpx(Flatten([n \in 1..Len(c) |->
        El("trk", <<>>,
           TextEl("name", FormatInt(n))
           \o Flatten([j \in 1..c[n] |->
                 El("trkseg", <<>>, Pt("trkpt", FormatInt(SumTo(c, n - 1) + j), <<"2">>, NoKids))]))]))

TrkDocs == {TrkDoc(c) : c \in TrkShapes}

\* a scalar of the bindings: the elements that enclose it, its attribute or element name,
\* the Go field it is bound to and the kind of the field's declared type
Slot(wrap, name, mode, go, kind) ==
    [wrap |-> wrap, name |-> name, mode |-> mode, go |-> go, kind |-> kind]

WayPointSlots ==
    { Slot(<<"wpt">>, "lat", "attr", "Latitude", "float"),
      Slot(<<"wpt">>, "lon", "attr", "Longitude", "float"),
      Slot(<<"wpt">>, "ele", "elem", "Elevation", "float"),
      Slot(<<"wpt">>, "time", "elem", "Timestamp", "string"),
      Slot(<<"wpt">>, "magvar", "elem", "MagneticVariation", "float"),
      Slot(<<"wpt">>, "geoidheight", "elem", "GeoIDHeight", "string"),
      Slot(<<"wpt">>, "name", "elem", "Name", "string"),
      Slot(<<"wpt">>, "cmt", "elem", "Comment", "string"),
      Slot(<<"wpt">>, "desc", "elem", "Description", "string"),
      Slot(<<"wpt">>, "src", "elem", "Source", "string"),
      Slot(<<"wpt">>, "sym", "elem", "Symbol", "string"),
      Slot(<<"wpt">>, "type", "elem", "Type", "string"),
      Slot(<<"wpt">>, "fix", "elem", "Fix", "string"),
      Slot(<<"wpt">>, "sat", "elem", "Sat", "int"),
      Slot(<<"wpt">>, "hdop", "elem", "HorizontalDilutionOfPrecision", "float"),
      Slot(<<"wpt">>, "vdop", "elem", "VerticalDilutionOfPrecision", "float"),
      Slot(<<"wpt">>, "pdop", "elem", "PositionDilutionOfPrecision", "float"),
      Slot(<<"wpt">>, "ageofgpsdata", "elem", "AgeOfGpsData", "float"),
      Slot(<<"wpt">>, "dgpsid", "elem", "DifferentialGPSID", "int") }

OtherSlots ==
    { Slot(<<"rte">>, "number", "elem", "Number", "int"),
      Slot(<<"rte">>, "name", "elem", "Name", "string"),
      Slot(<<"rte", "rtept">>, "lat", "attr", "Latitude", "float"),
      Slot(<<"trk">>, "number", "elem", "Number", "int"),
      Slot(<<"trk", "trkseg", "trkpt">>, "ele", "elem", "Elevation", "float"),
      Slot(<<"trk", "trkseg", "trkpt">>, "fix", "elem", "Fix", "string"),
      Slot(<<"trk", "trkseg", "trkpt", "extensions", "TrackPointExtension">>, "hr", "elem",
           "HeartRate", "int"),
      Slot(<<"metadata", "bounds">>, "minlat", "attr", "MinLat", "float"),
      Slot(<<"metadata", "copyright">>, "author", "attr", "Author", "string"),
      Slot(<<"metadata", "copyright">>, "year", "elem", "Year", "string") }

Slots == WayPointSlots \cup OtherSlots

\* the record of a decoded Document that holds the slot's field
Holder(wrap, d) ==
    CASE wrap = <<"wpt">> -> d.Waypoints[1]
      [] wrap = <<"rte">> -> d.Routes[1]
      [] wrap = <<"rte", "rtept">> -> d.Routes[1].RoutePoints[1]
      [] wrap = <<"trk">> -> d.Tracks
      [] wrap = <<"trk", "trkseg", "trkpt">> -> d.Tracks.TrackSegments[1].TrackPoint[1]
      [] wrap = <<"trk", "trkseg", "trkpt", "extensions", "TrackPointExtension">> ->
           d.Tracks.TrackSegments[1].TrackPoint[1].Extensions.TrackPointExtensions
      [] wrap = <<"metadata", "bounds">> -> d.Metadata.Bounds
      [] wrap = <<"metadata", "copyright">> -> d.Metadata.Copyright

\* texts, each with the number Go's strconv reads from it after TrimSpace, if any:
\* in range, out of range (a latitude of -91, a dgpsid of 5000), misspelled, empty, padded
TextCase(txt, okFloat, asFloat, okInt, asInt) ==
    [txt |-> txt, okFloat |-> okFloat, asFloat |-> asFloat, okInt |-> okInt, asInt |-> asInt]

TextCases ==
    { TextCase(<<"1", ".", "5">>, TRUE, [m |-> 15, e |-> 1], FALSE, 0),
      TextCase(<<"-", "9", "1">>, TRUE, [m |-> -91, e |-> 0], TRUE, -91),
      TextCase(<<"5", "0", "0", "0">>, TRUE, [m |-> 5000, e |-> 0], TRUE, 5000),
      TextCase(<<"+", "1", ".", "0">>, TRUE, [m |-> 1, e |-> 0], FALSE, 0),
      TextCase(<<" ", "7", "\n">>, TRUE, [m |-> 7, e |-> 0], TRUE, 7),
      TextCase(<<" ">>, FALSE, ZeroFloat, FALSE, 0),
      TextCase(<<"a", "b", "c">>, FALSE, ZeroFloat, FALSE, 0),
      TextCase(<<"3", "d">>, FALSE, ZeroFloat, FALSE, 0) }

RECURSIVE Nest(_, _, _, _)
\* the elements wrap[n..], one inside the other, the innermost with attrs and kids
Nest(wrap, n, attrs, kids) ==
    IF n = Len(wrap) THEN El(wrap[n], attrs, kids)
    ELSE El(wrap[n], <<>>, Nest(wrap, n + 1, attrs, kids))

\* a document that gives the slot the text t
ScalarDoc(slot, t) ==
    Gpx(Nest(slot.wrap, 1,
             IF slot.mode = "attr" THEN <<XMLAttr(slot.name, t)>> ELSE <<>>,
             IF slot.mode = "elem" THEN TextEl(slot.name, t) ELSE <<>>))

ScalarCases == {[doc |-> ScalarDoc(sl, c.txt), slot |-> sl, c |-> c] : sl \in Slots, c \in TextCases}

ScalarDocs == {x.doc : x \in ScalarCases}

\* a point element with lat/lon given as attributes and/or as child elements, and
\* ele/time/magvar given as child elements and/or as attributes
PointKinds == {"wpt", "rtept", "trkpt"}
PointShapes == [latAttr : BOOLEAN, latKid : BOOLEAN, eleAttr : BOOLEAN, eleKid : BOOLEAN]

PointDoc(kind, sh) ==
    LET attrs == (IF sh.latAttr THEN <<XMLAttr("lat", <<"1", ".", "5">>), XMLAttr("lon", <<"2">>)>> ELSE <<>>)
                 \o (IF sh.eleAttr
                     THEN <<XMLAttr("ele", <<"5", "0", "0", "0">>), XMLAttr("time", <<"a", "b", "c">>), XMLAttr("magvar", <<"-", "9", "1">>)>>
                     ELSE <<>>)
        kids == (IF sh.latKid THEN TextEl("lat", <<"-", "9", "1">>) \o TextEl("lon", <<"5", "0", "0", "0">>) ELSE <<>>)
                \o (IF sh.eleKid
                    THEN TextEl("ele", <<"2">>) \o TextEl("time", <<"3", "d">>) \o TextEl("magvar", <<"1", ".", "5">>)
                    ELSE <<>>)
        pt == El(kind, attrs, kids)
    IN  CASE kind = "wpt" -> Gpx(pt)
          [] kind = "rtept" -> Gpx(El("rte", <<>>, pt))
          [] kind = "trkpt" -> Gpx(El("trk", <<>>, El("trkseg", <<>>, pt)))

PointDocs == {PointDoc(kind, sh) : kind \in PointKinds, sh \in PointShapes}

\* the gpx root alone, with or without each attribute, an XML declaration, white space
MinimalShapes == [version : BOOLEAN, creator : BOOLEAN, decl : BOOLEAN, space : BOOLEAN, ns : BOOLEAN]

MinimalDoc(sh) ==
    LET root == El("gpx",
                   (IF sh.version THEN <<XMLAttr("version", TxtVersion)>> ELSE <<>>)
                   \o (IF sh.creator THEN <<XMLAttr("creator", TxtCreator)>> ELSE <<>>),
                   IF sh.space THEN <<CharData(<<"\n">>)>> ELSE <<>>)
    IN  (IF sh.decl THEN <<ProcInst, CharData(<<"\n">>)>> ELSE <<>>)
        \o (IF sh.ns THEN InNamespace(root) ELSE root)

MinimalDocs == {MinimalDoc(sh) : sh \in MinimalShapes}

\* a document with something of everything
BaseDoc ==
    Gpx(El("metadata", <<>>,
           TextEl("name", <<"a", "b", "c">>)
           \o El("author", <<>>, TextEl("name", <<"a", "b", "c">>)
                 \o El("email", <<XMLAttr("id", <<"a", "b", "c">>), XMLAttr("domain", <<"3", "d">>)>>, NoKids)
                 \o El("link", <<XMLAttr("href", <<"a", "b", "c">>)>>, NoKids))
           \o El("bounds", <<XMLAttr("minlat", <<"-", "9", "1">>), XMLAttr("maxlat", <<"1", ".", "5">>)>>, NoKids))
        \o Pt("wpt", <<"1", ".", "5">>, <<"2">>, TextEl("ele", <<"5", "0", "0", "0">>) \o TextEl("name", <<"a", "b", "c">>)
              \o El("link", <<XMLAttr("href", <<"a", "b", "c">>)>>, TextEl("text", <<"3", "d">>)))
        \o Pt("wpt", <<"-", "9", "1">>, <<"2">>, TextEl("fix", <<"3", "d">>) \o TextEl("sat", <<"2">>))
        \o El("rte", <<>>, TextEl("number", <<"2">>) \o Pt("rtept", <<"1", ".", "5">>, <<"2">>, NoKids))
        \o El("trk", <<>>, TextEl("name", <<"a", "b", "c">>)
              \o El("trkseg", <<>>,
                    Pt("trkpt", <<"1", ".", "5">>, <<"2">>,
                       TextEl("ele", <<"1", ".", "5">>)
                       \o El("extensions", <<>>,
                             El("TrackPointExtension", <<>>, TextEl("hr", <<"2">>)))))))

\* the bytes of b cut off after n tokens
Truncated(b, n) == SubSeq(b, 1, n)
\* the bytes of b with bytes the lexer rejects after n tokens
Damaged(b, n) == SubSeq(b, 1, n) \o <<BadBytes>> \o SubSeq(b, n + 1, Len(b))
\* the bytes of b with the n-th token, an end tag, naming another element
Misclosed(b, n) == [b EXCEPT ![n] = EndElement("other")]

\* what may follow the root element's end tag: bytes the lexer rejects, an unclosed
\* tag, a stray end tag, text, a second root element
Tails ==
    { <<BadBytes>>, <<StartElement("", "wpt", <<>>)>>, <<EndElement("gpx")>>,
      <<CharData(<<"a", "b", "c">>)>>, Gpx(Pt("wpt", <<"2">>, <<"2">>, NoKids)) }

MalformedDocs ==
    {Truncated(BaseDoc, n) : n \in 0..(Len(BaseDoc) - 1)}
    \cup {Damaged(BaseDoc, n) : n \in 0..(Len(BaseDoc) - 1)}
    \cup {Misclosed(BaseDoc, n) : n \in {j \in 1..Len(BaseDoc) : BaseDoc[j].k = "end"}}
    \cup {<<ProcInst>>, <<CharData(<<"a", "b", "c">>)>>, <<EndElement("gpx")>>}
    \cup {El("kml", GpxAttrs, Pt("wpt", <<"2">>, <<"2">>, NoKids))}

TrailingDocs == {d \o t : d \in {BaseDoc, MinimalDoc([version |-> TRUE, creator |-> TRUE, decl |-> FALSE, space |-> FALSE, ns |-> FALSE])}, t \in Tails}

Inputs ==
    OrderDocs \cup TrkDocs \cup ScalarDocs \cup PointDocs \cup MinimalDocs
    \cup MalformedDocs \cup TrailingDocs \cup {BaseDoc, MixedDoc, InNamespace(BaseDoc)}

\* the files of the file system: one per buffer, one that does not exist, one unreadable
File(exists, readable, bytes) == [exists |-> exists, readable |-> readable, bytes |-> bytes]

Files ==
    {File(TRUE, TRUE, b) : b \in Inputs}
    \cup {File(FALSE, FALSE, <<>>), File(TRUE, FALSE, BaseDoc)}

-----------------------------------------------------------------------------
(* Spec: a caller's `g := GPX{}; err := Parse(bytes, &g)` and `ParseFile(fileName)`. *)

NilPointer == [nil |-> TRUE, doc |-> ZeroGPX]

Init ==
    /\ op = "init"
    /\ input = <<>>
    /\ file = File(FALSE, FALSE, <<>>)
    /\ g = ZeroGPX
    /\ err = Nil
    /\ ret = NilPointer
    /\ parsed = FALSE
    /\ consumed = 0
    /\ calls = 0
    /\ orig = ZeroGPX

\* Parse(b, &g) on a receiver g that holds doc
DoParse(b, doc) ==
    LET r == Parse(b, doc) IN
    /\ op' = "Parse"
    /\ input' = b
    /\ g' = r.val
    /\ err' = r.err
    /\ consumed' = r.read
    /\ UNCHANGED <<file, ret, parsed, orig>>

\* the caller's `g := GPX{}; err := Parse(b, &g)`
ParseFresh ==
    /\ op = "init"
    /\ \E b \in Inputs :
        /\ DoParse(b, ZeroGPX)
        /\ calls' = 1

CallParseFile ==
    /\ op = "init"
    /\ \E f \in Files :
        LET r == ParseFile(f) IN
        /\ op' = "ParseFile"
        /\ file' = f
        /\ input' = IF r.parsed THEN f.bytes ELSE <<>>
        /\ ret' = r.ret
        /\ g' = r.ret.doc
        /\ err' = r.err
        /\ parsed' = r.parsed
        /\ consumed' = r.read
        /\ calls' = IF r.parsed THEN 1 ELSE 0
        /\ UNCHANGED orig

\* the caller is done with what the operation returned
Discard ==
    /\ op # "init"
    /\ op' = "init"
    /\ input' = <<>>
    /\ file' = File(FALSE, FALSE, <<>>)
    /\ g' = ZeroGPX
    /\ err' = Nil
    /\ ret' = NilPointer
    /\ parsed' = FALSE
    /\ consumed' = 0
    /\ calls' = 0
    /\ orig' = ZeroGPX

Next == ParseFresh \/ CallParseFile \/ Discard

Spec == Init /\ [][Next]_vars

-----------------------------------------------------------------------------
(* SpecReuse: Parse called again and again on the receiver it filled before. *)

ReuseInputs ==
    { OrderDoc("wpt", <<<<"1", ".", "5">>>>), OrderDoc("wpt", <<<<"-", "9", "1">>, <<"1", ".", "5">>>>),
      OrderDoc("rte", <<<<"1", ".", "5">>>>), OrderDoc("rtept", <<<<"-", "9", "1">>>>),
      OrderDoc("trkseg", <<<<"1", ".", "5">>>>), OrderDoc("link", <<<<"1", ".", "5">>>>),
      TrkDoc(<<1, 1>>), MixedDoc, BaseDoc,
      MinimalDoc([version |-> TRUE, creator |-> TRUE, decl |-> FALSE, space |-> FALSE, ns |-> FALSE]),
      MinimalDoc([version |-> FALSE, creator |-> FALSE, decl |-> TRUE, space |-> FALSE, ns |-> TRUE]),
      ScalarDoc(Slot(<<"wpt">>, "sat", "elem", "Sat", "int"), <<"a", "b", "c">>),
      Truncated(BaseDoc, 30) }

\* g = GPX{}
NewReceiver ==
    /\ calls > 0
    /\ op' = "new"
    /\ g' = ZeroGPX
    /\ calls' = 0
    /\ err' = Nil
    /\ input' = <<>>
    /\ consumed' = 0
    /\ UNCHANGED <<file, ret, parsed, orig>>

ParseAgain ==
    /\ calls < MaxCalls
    /\ \E b \in ReuseInputs : DoParse(b, g)
    /\ calls' = calls + 1

NextReuse == NewReceiver \/ ParseAgain

SpecReuse == Init /\ [][NextReuse]_vars

-----------------------------------------------------------------------------
(* SpecRoundTrip: a Document is encoded, and the encoding decoded into a new GPX{}. *)

\* the Documents Parse produces
DecodedDocs == {r.val : r \in {x \in {Unmarshal(b, ZeroGPX) : b \in Inputs} : x.err = Nil}}

\* Documents built as struct literals: the XMLName fields are left zero
LiteralWayPoint(lat, name) ==
    [Zero(TStruct("WayPoint")) EXCEPT !.Latitude = lat, !.Name = name, !.Sat = 7,
                                      !.Links = <<[Zero(TStruct("Link")) EXCEPT !.URL = <<"a", "b", "c">>]>>]

LiteralDocs ==
    { [ZeroGPX EXCEPT !.Version = TxtVersion, !.Creator = TxtCreator, !.Waypoints = w]
        : w \in { <<>>,
                  <<LiteralWayPoint([m |-> 15, e |-> 1], <<"a", "b", "c">>)>>,
                  <<LiteralWayPoint([m |-> -915, e |-> 1], <<" ", "a">>),
                    LiteralWayPoint([m |-> 5, e |-> 2], <<>>)>> } }

Documents == DecodedDocs \cup LiteralDocs

Encode ==
    /\ op = "init"
    /\ \E d \in Documents :
        /\ op' = "Marshal"
        /\ orig' = d
        /\ input' = Marshal(d)
        /\ g' = ZeroGPX
        /\ err' = Nil
        /\ consumed' = 0
        /\ calls' = 0
        /\ UNCHANGED <<file, ret, parsed>>

Decode ==
    /\ op = "Marshal"
    /\ LET r == Parse(input, ZeroGPX) IN
        /\ op' = "RoundTrip"
        /\ g' = r.val
        /\ err' = r.err
        /\ consumed' = r.read
        /\ calls' = 1
        /\ UNCHANGED <<input, file, ret, parsed, orig>>

NextRoundTrip == Encode \/ Decode \/ Discard

SpecRoundTrip == Init /\ [][NextRoundTrip]_vars

-----------------------------------------------------------------------------
(* The source document as XML sees it: nesting, children, attributes, text.  These *)
(* read the buffer alone, not the bindings, and state what the claims expect.      *)

RECURSIVE InOrder(_)
\* the numbers of a set in increasing order
InOrder(S) ==
    IF S = {} THEN <<>>
    ELSE LET m == CHOOSE x \in S : \A y \in S : x <= y IN <<m>> \o InOrder(S \ {m})

RECURSIVE DepthsFrom(_, _, _)
DepthsFrom(b, n, d) ==
    IF n > Len(b) THEN <<>>
    ELSE <<d>> \o DepthsFrom(b, n + 1,
                             IF b[n].k = "start" THEN d + 1 ELSE IF b[n].k = "end" THEN d - 1 ELSE d)

\* for each token, the number of elements open before it
Depths(b) == DepthsFrom(b, 1, 0)

RECURSIVE Scan(_, _, _)
\* the place of the end tag that closes the first element of b, reading as an XML
\* parser does; 0 when the bytes end, or are malformed, before it
Scan(b, n, stk) ==
    IF n > Len(b) THEN 0
    ELSE CASE b[n].k = "bad" -> 0
           [] b[n].k = "start" -> Scan(b, n + 1, <<b[n].name>> \o stk)
           [] b[n].k = "end" ->
                IF stk = <<>> \/ Head(stk) # b[n].name THEN 0
                ELSE IF Len(stk) = 1 THEN n
                ELSE Scan(b, n + 1, Tail(stk))
           [] OTHER -> Scan(b, n + 1, stk)

RootEnd(b) == Scan(b, 1, <<>>)

\* the place of the first start tag, 0 when there is none
RootAt(b) ==
    LET st == {n \in 1..Len(b) : b[n].k = "start"} IN
    IF st = {} THEN 0 ELSE CHOOSE n \in st : \A m \in st : n <= m

\* the root's start tag is accepted: nothing malformed comes before it, and it is <gpx>
RootOpened(b) ==
    /\ RootAt(b) > 0
    /\ b[RootAt(b)].name = "gpx"
    /\ \A n \in 1..(RootAt(b) - 1) : b[n].k \in {"chars", "other"}

\* only white space, comments and processing instructions follow the root element
Ignorable(tok) == tok.k = "other" \/ (tok.k = "chars" /\ \A n \in 1..Len(tok.text) : IsSpace(tok.text[n]))

\* the whole buffer is one well-formed document
WellFormed(b) ==
    /\ RootEnd(b) > 0
    /\ \A n \in 1..(RootAt(b) - 1) : b[n].k \in {"chars", "other"}
    /\ \A n \in (RootEnd(b) + 1)..Len(b) : Ignorable(b[n])

\* the end tag of the element that starts at n (in a well-formed element)
EndOf(b, dp, n) ==
    CHOOSE j \in (n + 1)..Len(b) :
        /\ b[j].k = "end" /\ dp[j] = dp[n] + 1
        /\ \A h \in (n + 1)..(j - 1) : ~(b[h].k = "end" /\ dp[h] = dp[n] + 1)

\* the child elements called name of the element that starts at n, in document order
ChildrenOf(b, dp, n, name) ==
    InOrder({j \in (n + 1)..(EndOf(b, dp, n) - 1) :
                b[j].k = "start" /\ b[j].name = name /\ dp[j] = dp[n] + 1})

\* the children called name of each of the elements ns, all in document order
ChildrenOfAll(b, dp, ns, name) == Flatten([h \in 1..Len(ns) |-> ChildrenOf(b, dp, ns[h], name)])

HasAttr(tok, name) == \E h \in 1..Len(tok.attrs) : tok.attrs[h].name = name

\* the value of the attribute called name (the last one, should it be repeated)
AttrText(tok, name) ==
    LET hs == {h \in 1..Len(tok.attrs) : tok.attrs[h].name = name} IN
    tok.attrs[CHOOSE h \in hs : \A x \in hs : x <= h].val

\* the character data directly inside the element that starts at n
ElemText(b, dp, n) ==
    Flatten([h \in 1..(EndOf(b, dp, n) - n - 1) |->
                IF b[n + h].k = "chars" /\ dp[n + h] = dp[n] + 1 THEN b[n + h].text ELSE <<>>])

\* the number a float64 field holds after a text is stored in it
FloatOfText(t) == IF t = <<>> THEN ZeroFloat ELSE ParseFloat(TrimSpace(t)).val

\* what the attribute called name gives a float64 field of the element at n
AttrFloat(b, n, name) ==
    IF HasAttr(b[n], name) THEN FloatOfText(AttrText(b[n], name)) ELSE ZeroFloat

\* the text of the last child element called name of the element at n, <<>> with no such child
KidText(b, dp, n, name) ==
    LET ks == ChildrenOf(b, dp, n, name) IN
    IF ks = <<>> THEN <<>> ELSE ElemText(b, dp, ks[Len(ks)])

Lats(pts) == [h \in 1..Len(pts) |-> pts[h].Latitude]
SourceLats(b, ns) == [h \in 1..Len(ns) |-> AttrFloat(b, ns[h], "lat")]

-----------------------------------------------------------------------------
(* The claims. *)

\* C2: when the read of the named file fails, ParseFile returns the read error as it
\* is, with a non-nil pointer to a zero-value Document, and Parse is not called.
C2_ReadFailureReturnsZeroDocument ==
    op = "ParseFile" /\ ~(file.exists /\ file.readable) =>
        /\ err = (IF file.exists THEN ErrPermission ELSE ErrNotExist)
        /\ ~ret.nil
        /\ ret.doc = ZeroGPX
        /\ ~parsed
        /\ consumed = 0

\* ParseFile was called on a file that does not exist
C2_MissingFileRead == op = "ParseFile" /\ ~file.exists /\ err = ErrNotExist /\ ~ret.nil

\* C1 as stated: when Parse fails on the bytes of a readable file, the Document that
\* ParseFile returns is the zero value.
C1_DecodeFailureReturnsZeroDocument ==
    op = "ParseFile" /\ parsed /\ err # Nil => ret.doc = ZeroGPX

\* the top-level wpt elements of b that are closed within its first n tokens
ClosedWaypoints(b, n) ==
    LET dp == Depths(SubSeq(b, 1, n)) IN
    {j \in 1..n : b[j].k = "end" /\ b[j].name = "wpt" /\ dp[j] = 2}

\* C1 amended: when Parse fails on the bytes of a readable file, ParseFile returns the
\* error with a non-nil pointer to the Document as the failed decode left it.  The
\* Document is the zero value exactly when the decode failed before it accepted a gpx
\* root start tag; otherwise it holds the root's name and attributes and every
\* waypoint that was decoded before the failure.
C1_DecodeFailureReturnsPartialDocument ==
    op = "ParseFile" /\ parsed /\ err # Nil =>
        /\ ~ret.nil
        /\ ret.doc = ZeroGPX <=> ~RootOpened(file.bytes)
        /\ RootOpened(file.bytes) =>
            /\ ret.doc.XMLName.Local = "gpx"
            /\ HasAttr(file.bytes[RootAt(file.bytes)], "version") =>
                   ret.doc.Version = AttrText(file.bytes[RootAt(file.bytes)], "version")
            /\ Len(ret.doc.Waypoints) = Cardinality(ClosedWaypoints(file.bytes, consumed))

\* ParseFile failed on a file cut off after its first waypoint and returned that waypoint
C1_PartialDocumentReturned ==
    /\ op = "ParseFile" /\ parsed /\ err = ErrUnexpectedEOF
    /\ Len(ret.doc.Waypoints) = 1
    /\ ret.doc.Waypoints[1].Elevation = [m |-> 5000, e |-> 0]

\* C3 as stated: Parse returns nil only for a buffer that is well-formed XML as a whole.
C3_SuccessOnlyOnWellFormedBuffer ==
    op = "Parse" /\ err = Nil => WellFormed(input)

CodecErrors ==
    {ErrEOF, ErrUnexpectedEOF, ErrSyntax, ErrUnexpectedEnd, ErrMismatchedEnd, ErrExpectedElement,
     ErrSyntaxInt, ErrRangeInt, ErrSyntaxFloat}

\* C3 amended: Parse returns a non-nil error, one of the codec's, for every buffer that
\* ends or is malformed before the end tag of its first element, and for every buffer
\* whose first element is not gpx.  Parse returns nil only when the codec decoded that
\* whole element, and then it has read nothing after the element's end tag: bytes that
\* follow the root element, malformed or not, are never decoded.
C3_MalformedRootRejected ==
    op = "Parse" =>
        /\ RootEnd(input) = 0 => err # Nil
        /\ RootAt(input) > 0 /\ input[RootAt(input)].name # "gpx" => err = ErrExpectedElement
        /\ err # Nil => err \in CodecErrors
        /\ err = Nil => RootEnd(input) > 0 /\ consumed = RootEnd(input)

\* Parse rejected a buffer with an unclosed tag
C3_UnclosedTagRejected ==
    /\ op = "Parse" /\ err = ErrUnexpectedEOF
    /\ RootEnd(input) = 0 /\ RootOpened(input)

Hrefs(links) == [h \in 1..Len(links) |-> links[h].URL]
SourceHrefs(b, ns) ==
    [h \in 1..Len(ns) |-> IF HasAttr(b[ns[h]], "href") THEN AttrText(b[ns[h]], "href") ELSE <<>>]

\* C4: after a successful Parse into a new Document, each sequence holds one record per
\* source element bound to it, in document order: wpt -> Waypoints, rte -> Routes,
\* rtept -> RoutePoints, trkseg -> TrackSegments, trkpt -> TrackPoint, link -> Links.
\* The elements are told apart by their lat (href for links), so a permuted source gives
\* the sequence permuted the same way.
C4_OrderPreserved ==
    op = "Parse" /\ err = Nil =>
        LET b == input
            dp == Depths(b)
            r == RootAt(b)
            wpts == ChildrenOf(b, dp, r, "wpt")
            rtes == ChildrenOf(b, dp, r, "rte")
            segs == ChildrenOfAll(b, dp, ChildrenOf(b, dp, r, "trk"), "trkseg")
        IN  /\ Lats(g.Waypoints) = SourceLats(b, wpts)
            /\ Len(g.Routes) = Len(rtes)
            /\ \A n \in 1..Len(rtes) :
                   Lats(g.Routes[n].RoutePoints) = SourceLats(b, ChildrenOf(b, dp, rtes[n], "rtept"))
            /\ Len(g.Tracks.TrackSegments) = Len(segs)
            /\ \A n \in 1..Len(segs) :
                   Lats(g.Tracks.TrackSegments[n].TrackPoint)
                       = SourceLats(b, ChildrenOf(b, dp, segs[n], "trkpt"))
            /\ \A n \in 1..Len(wpts) :
                   Hrefs(g.Waypoints[n].Links) = SourceHrefs(b, ChildrenOf(b, dp, wpts[n], "link"))

\* two waypoints were decoded from a source that lists -91 before 1.5 (OrderDoc also
\* gives the source with the two exchanged)
C4_TwoWaypointsInOrder ==
    /\ op = "Parse" /\ err = Nil
    /\ input = OrderDoc("wpt", << <<"-", "9", "1">>, <<"1", ".", "5">> >>)
    /\ Lats(g.Waypoints) = << [m |-> -91, e |-> 0], [m |-> 15, e |-> 1] >>

TrkCases == {[c |-> c, doc |-> TrkDoc(c)] : c \in TrkShapes}

\* C10: a source with k trk elements, k >= 0, decodes without error into a Document
\* with one Track record; its TrackSegments are the trkseg elements of all k trk
\* elements in document order; with no trk element the Track is the zero record.
C10_SingleTrack ==
    op = "Parse" =>
        /\ \A x \in TrkCases : input = x.doc =>
               /\ err = Nil
               /\ DOMAIN g.Tracks = GoNames("Track")
               /\ Len(g.Tracks.TrackSegments) = SumTo(x.c, Len(x.c))
               /\ \A j \in 1..SumTo(x.c, Len(x.c)) :
                      Lats(g.Tracks.TrackSegments[j].TrackPoint) = << [m |-> j, e |-> 0] >>
        /\ err = Nil /\ ChildrenOf(input, Depths(input), RootAt(input), "trk") = <<>> =>
               g.Tracks = Zero(TStruct("Track"))

\* a source with two trk elements of one segment each was decoded into one Track
C10_TwoTracksMerged ==
    /\ op = "Parse" /\ err = Nil /\ input = TrkDoc(<<1, 1>>)
    /\ Len(g.Tracks.TrackSegments) = 2

ZeroOf(kind) == CASE kind = "float" -> ZeroFloat [] kind = "int" -> 0 [] OTHER -> <<>>

\* the element at n gives the slot no value
SlotAbsent(b, dp, n, sl) ==
    IF sl.mode = "attr" THEN ~HasAttr(b[n], sl.name) ELSE ChildrenOf(b, dp, n, sl.name) = <<>>

\* C6: a document of the gpx root alone decodes without error into the zero Document
\* but for the root's name and the attributes it carries; and after every successful
\* Parse into a new Document a field whose element or attribute is absent from the
\* source is the zero value of its type.
C6_AbsentFieldsAreZero ==
    op = "Parse" =>
        /\ \A sh \in MinimalShapes : input = MinimalDoc(sh) =>
               /\ err = Nil
               /\ g = [ZeroGPX EXCEPT !.XMLName = Name(IF sh.ns THEN GpxNamespace ELSE "", "gpx"),
                                      !.Version = IF sh.version THEN TxtVersion ELSE <<>>,
                                      !.Creator = IF sh.creator THEN TxtCreator ELSE <<>>]
        /\ err = Nil =>
               LET b == input
                   dp == Depths(b)
                   r == RootAt(b)
                   wpts == ChildrenOf(b, dp, r, "wpt")
               IN  /\ wpts = <<>> => g.Waypoints = <<>>
                   /\ ChildrenOf(b, dp, r, "rte") = <<>> => g.Routes = <<>>
                   /\ ChildrenOf(b, dp, r, "metadata") = <<>> => g.Metadata = Zero(TStruct("Metadata"))
                   /\ ~HasAttr(b[r], "version") => g.Version = <<>>
                   /\ ~HasAttr(b[r], "creator") => g.Creator = <<>>
                   /\ Len(g.Waypoints) = Len(wpts)
                   /\ \A n \in 1..Len(wpts) : \A sl \in WayPointSlots :
                          SlotAbsent(b, dp, wpts[n], sl) => g.Waypoints[n][sl.go] = ZeroOf(sl.kind)

\* the root alone, with version and creator, was decoded
C6_MinimalDocumentDecoded ==
    /\ op = "Parse" /\ err = Nil
    /\ input = El("gpx", GpxAttrs, NoKids)
    /\ g.Waypoints = <<>> /\ g.Routes = <<>> /\ g.Version = TxtVersion

\* the decoded point pt holds what the point element at n gives it: lat and lon from
\* its attributes alone, ele, time and magvar from its child elements alone
PointFaithful(b, dp, n, pt) ==
    /\ pt.Latitude = AttrFloat(b, n, "lat")
    /\ pt.Longitude = AttrFloat(b, n, "lon")
    /\ pt.Elevation = FloatOfText(KidText(b, dp, n, "ele"))
    /\ pt.Timestamp = KidText(b, dp, n, "time")
    /\ pt.MagneticVariation = FloatOfText(KidText(b, dp, n, "magvar"))

PointsFaithful(b, dp, ns, pts) ==
    /\ Len(pts) = Len(ns)
    /\ \A n \in 1..Len(ns) : PointFaithful(b, dp, ns[n], pts[n])

\* C7: after a successful Parse into a new Document, every wpt, rtept and trkpt has
\* Latitude and Longitude from its lat and lon attributes only (zero without them,
\* whatever child elements named lat or lon it has), and Elevation, Timestamp and
\* MagneticVariation from its child elements only (zero without them, whatever
\* attributes named ele, time or magvar it has).
C7_AttributeElementFidelity ==
    op = "Parse" /\ err = Nil =>
        LET b == input
            dp == Depths(b)
            r == RootAt(b)
            rtes == ChildrenOf(b, dp, r, "rte")
            segs == ChildrenOfAll(b, dp, ChildrenOf(b, dp, r, "trk"), "trkseg")
        IN  /\ PointsFaithful(b, dp, ChildrenOf(b, dp, r, "wpt"), g.Waypoints)
            /\ PointsFaithful(b, dp, ChildrenOfAll(b, dp, rtes, "rtept"),
                              Flatten([n \in 1..Len(g.Routes) |-> g.Routes[n].RoutePoints]))
            /\ PointsFaithful(b, dp, ChildrenOfAll(b, dp, segs, "trkpt"),
                              Flatten([n \in 1..Len(g.Tracks.TrackSegments) |->
                                          g.Tracks.TrackSegments[n].TrackPoint]))

\* a trkpt with lat and lon as child elements and ele, time and magvar as attributes
\* was decoded: all five fields are zero
C7_MisplacedValuesIgnored ==
    /\ op = "Parse" /\ err = Nil
    /\ input = PointDoc("trkpt", [latAttr |-> FALSE, latKid |-> TRUE, eleAttr |-> TRUE, eleKid |-> FALSE])
    /\ LET pt == g.Tracks.TrackSegments[1].TrackPoint[1] IN
           /\ pt.Latitude = ZeroFloat /\ pt.Longitude = ZeroFloat
           /\ pt.Elevation = ZeroFloat /\ pt.Timestamp = <<>> /\ pt.MagneticVariation = ZeroFloat

\* whether the text of a case is a number of the kind, and the value a field of the
\* kind holds once the text is stored
Coercible(kind, c) == CASE kind = "float" -> c.okFloat [] kind = "int" -> c.okInt [] OTHER -> TRUE
Literal(kind, c) == CASE kind = "float" -> c.asFloat [] kind = "int" -> c.asInt [] OTHER -> c.txt

\* C8: Parse of a document that gives one scalar field a text fails exactly when the
\* field is numeric and the text is no number of its kind, and then with strconv's
\* syntax error; otherwise the field holds the literal value, in range or not (a
\* latitude of -91, a dgpsid of 5000, a fix of "abc").
C8_NoSemanticValidation ==
    op = "Parse" =>
        \A x \in ScalarCases : input = x.doc =>
            /\ err = Nil <=> Coercible(x.slot.kind, x.c)
            /\ err # Nil => err = (IF x.slot.kind = "int" THEN ErrSyntaxInt ELSE ErrSyntaxFloat)
            /\ err = Nil => Holder(x.slot.wrap, g)[x.slot.go] = Literal(x.slot.kind, x.c)

\* a waypoint with latitude -91 was decoded
C8_OutOfRangeLatitudeStored ==
    /\ op = "Parse" /\ err = Nil
    /\ input = ScalarDoc(Slot(<<"wpt">>, "lat", "attr", "Latitude", "float"), <<"-", "9", "1">>)
    /\ g.Waypoints[1].Latitude = [m |-> -91, e |-> 0]

\* C9 as stated: a successful Parse leaves the receiver equal to the Document that the
\* same bytes give a new Document, whatever the receiver held before.
C9_ParseIsPure ==
    op = "Parse" /\ err = Nil => g = Unmarshal(input, ZeroGPX).val

\* C9 amended: a successful Parse into a new Document gives the Document that the bytes
\* determine.  Into a receiver that earlier calls filled it decodes on top of what is
\* there: each sequence is the receiver's sequence followed by the elements decoded
\* from the bytes (so parsing the same bytes twice doubles the lengths), an attribute
\* absent from the root leaves its field as it was, and with no trk element the Track
\* stays as it was.
C9_ParseAppendsToReceiver ==
    [][op' = "Parse" /\ err' = Nil =>
          LET new == Unmarshal(input', ZeroGPX).val
              root == input'[RootAt(input')]
          IN  /\ calls = 0 => g' = new
              /\ g'.Waypoints = g.Waypoints \o new.Waypoints
              /\ g'.Routes = g.Routes \o new.Routes
              /\ g'.Tracks.TrackSegments = g.Tracks.TrackSegments \o new.Tracks.TrackSegments
              /\ g'.Metadata.Links = g.Metadata.Links \o new.Metadata.Links
              /\ g'.Version = (IF HasAttr(root, "version") THEN new.Version ELSE g.Version)
              /\ g'.Creator = (IF HasAttr(root, "creator") THEN new.Creator ELSE g.Creator)
              /\ new.Tracks.XMLName = ZeroName => g'.Tracks = g.Tracks]_vars

\* the same bytes, one waypoint, were parsed twice into the same receiver: it holds
\* the waypoint twice
C9_SameBytesTwiceDoubles ==
    /\ op = "Parse" /\ err = Nil /\ calls = 2
    /\ input = OrderDoc("wpt", << <<"1", ".", "5">> >>)
    /\ Len(g.Waypoints) = 2
    /\ g.Waypoints[1] = g.Waypoints[2]

\* C5 as stated: decoding the encoding of a Document into a new Document gives a
\* Document equal to it in every field, the element-name fields included.
C5_RoundTripIdentity ==
    op = "RoundTrip" => err = Nil /\ g = orig

RECURSIVE WithBindingNames(_, _)
\* v with every XMLName field set to the element name of its binding, in no namespace
WithBindingNames(ty, v) ==
    CASE ty.k = "struct" ->
           [n \in DOMAIN v |-> IF n = "XMLName" THEN Name("", XMLNameTag(ty.t))
                               ELSE WithBindingNames(FieldByGo(ty.t, n).ty, v[n])]
      [] ty.k = "slice" -> [h \in 1..Len(v) |-> WithBindingNames(TStruct(ty.t), v[h])]
      [] OTHER -> v

\* C5 amended: decoding the encoding of a Document into a new Document succeeds and
\* gives a Document equal to it in every field but the element-name (XMLName) fields:
\* each of those comes back as the element name of its binding in no namespace,
\* whether it was zero, as in a Document built in code, or carried a namespace.
C5_RoundTripUpToElementNames ==
    op = "RoundTrip" => err = Nil /\ g = WithBindingNames(TStruct("GPX"), orig)

\* a Document built in code with two waypoints went through the round trip: the
\* waypoints came back, the root's element name changed
C5_LiteralDocumentRoundTripped ==
    /\ op = "RoundTrip" /\ err = Nil
    /\ orig \in LiteralDocs /\ Len(orig.Waypoints) = 2
    /\ g.Waypoints = WithBindingNames(TSlice("WayPoint"), orig.Waypoints)
    /\ orig.XMLName = ZeroName /\ g.XMLName = Name("", "gpx")

=============================================================================
